---- MODULE Spec2Model ----
(***************************************************************************)
(* control-samsung-tv.ts: SSDP discovery of Samsung TVs                    *)
(* (getSamsungDevices) and the MAC-keyed device cache                      *)
(* (getCachedSamsungDevices), and the interactive session of main.         *)
(*                                                                         *)
(* Node runs the program on one event loop.  Every action below is one     *)
(* callback or one continuation of an async function, run to its next      *)
(* await.  `pc` is the position of getCachedSamsungDevices and `mainPc`    *)
(* the position of main.                                                   *)
(*                                                                         *)
(* Spec is the program from its start to the moment main has the device    *)
(* list; SessionSpec is main from that moment on, started from states      *)
(* that Spec reaches.                                                      *)
(***************************************************************************)
EXTENDS Integers, Sequences, FiniteSets, TLC

VARIABLES
    file,       \* content of the cache file at cachePath
    pc,         \* position of getCachedSamsungDevices
    result,     \* the local `result` of getCachedSamsungDevices
    returned,   \* the list getCachedSamsungDevices resolved with
    socket,     \* "none" | "open" | "listening" | "closed"
    queries,    \* M-SEARCH datagrams handed to socket.send
    interval,   \* TRUE while the 25 ms setInterval timer is armed
    promise,    \* state of the promise getSamsungDevices returned
    now,        \* Date.now(), in ms since the program started
    startTime,  \* the local `startTime` of getSamsungDevices
    devices,    \* the local array `devices` of getSamsungDevices
    inflight,   \* 'message' handlers suspended at `await fetch(...)`
    received,   \* every datagram delivered to the 'message' handler so far
    resolvedWith,   \* devices.length when resolve(devices) was called
    closes,         \* calls of socket.close() so far
    mainPc,         \* position of main
    rawMode,        \* TRUE while the terminal is in raw mode
    exitCode,       \* the code process.exit was called with (0 by default)
    selectedDevice, \* the local `selectedDevice` of main
    remote,         \* the SamsungTvRemote main constructed
    reads,          \* every read of /dev/stdin so far: the loop and its bytes
    sent            \* every call made on `remote` so far

discoveryVars == << file, pc, result, returned, socket, queries, interval,
                    promise, now, startTime, devices, inflight, received,
                    resolvedWith, closes >>

mainVars == << mainPc, rawMode, exitCode, selectedDevice, remote, reads, sent >>

vars == << discoveryVars, mainVars >>

-----------------------------------------------------------------------------
(* Bounds of the model *)

\* datagrams delivered to the socket during one discovery call
MaxDatagrams == 2

\* reads of /dev/stdin during one run
MaxReads == 2

(* Program constants *)

\* default of the parameter timeMs
TimeMs == 250
\* period of the poll timer
TickMs == 25

\* A timer callback runs on time or, when the event loop was busy, one
\* period late.
TickDelays == { TickMs, 2 * TickMs }

-----------------------------------------------------------------------------
(* Values *)

\* JavaScript's `undefined`
Undefined == "<undefined>"

SentinelMac == "00:00:00:00:00:00"
MacA == "AA:BB:CC:DD:EE:FF"
MacB == "11:22:33:44:55:66"

Ip1 == "192.168.1.10"
Ip2 == "192.168.1.20"

UrlTv == "http://192.168.1.10:9197/dmr"
UrlDown == "http://192.168.1.10:7676/unreachable"

\* One line of a datagram's text: `key:value`, or a line without a colon.
HeaderLine(k, v) == [colon |-> TRUE, key |-> k, value |-> v]
PlainLine(t) == [colon |-> FALSE, key |-> "", value |-> t]

\* Inbound datagrams: msg (its lines) and rinfo.address.
DgTv ==
    [address |-> Ip1,
     lines |-> << PlainLine("HTTP/1.1 200 OK"),
                  HeaderLine("LOCATION", UrlTv),
                  HeaderLine("SERVER", "Samsung UPnP SDK/1.0"),
                  HeaderLine("WAKEUP", "MAC=AA:BB:CC:DD:EE:FF") >>]
DgDown ==
    [address |-> Ip1,
     lines |-> << HeaderLine("Server", "Samsung UPnP SDK/1.0"),
                  HeaderLine("Location", UrlDown),
                  HeaderLine("WAKEUP", "MAC=AA:BB:CC:DD:EE:FF") >>]
DgNoLocation ==
    [address |-> Ip2,
     lines |-> << HeaderLine("SERVER", "Samsung UPnP SDK/1.0"),
                  HeaderLine("wakeup", "MAC=11:22:33:44:55:66") >>]
DgEmptyLocation ==
    [address |-> Ip2,
     lines |-> << HeaderLine("LOCATION", UrlTv),
                  HeaderLine("location", ""),
                  HeaderLine("SERVER", "Samsung UPnP SDK/1.0"),
                  HeaderLine("WAKEUP", "MAC=AA:BB:CC:DD:EE:FF") >>]
DgOther ==
    [address |-> Ip2,
     lines |-> << HeaderLine("LOCATION", UrlTv),
                  HeaderLine("SERVER", "Linux UPnP/1.0 samsung"),
                  HeaderLine("WAKEUP", "MAC=11:22:33:44:55:66") >>]

Datagrams == { DgTv, DgDown, DgNoLocation, DgEmptyLocation, DgOther }

\* Descriptor documents: the elements of the XML text, in document order.
Element(t, x) == [tag |-> t, text |-> x]
DocNamed == << Element("modelName", "UE55"),
               Element("FRIENDLYNAME", "Living Room TV"),
               Element("friendlyName", "Second Name") >>
DocNoName == << Element("modelName", "UE55") >>

\* What `await (await fetch(url)).text()` can produce: a document, or a throw.
Threw == [threw |-> TRUE, text |-> << >>]
Fetched(doc) == [threw |-> FALSE, text |-> doc]
FetchOutcomes(url) ==
    IF url = UrlTv
    THEN { Threw, Fetched(DocNamed), Fetched(DocNoName) }
    ELSE { Threw }

DeviceInfo(n, i, m) == [friendlyName |-> n, ip |-> i, mac |-> m]

-----------------------------------------------------------------------------
(* The 'message' handler's pure parts *)

\* String.prototype.includes('Samsung') on one line's text (case-sensitive)
LineIncludesSamsung(line) ==
    line.value \in { "Samsung UPnP SDK/1.0" }

\* response.includes('Samsung')
IncludesSamsung(dg) ==
    \E i \in 1..Len(dg.lines) : LineIncludesSamsung(dg.lines[i])

\* key.trim().toUpperCase()
ToUpperCase(k) ==
    CASE k \in { "LOCATION", "Location", "location" } -> "LOCATION"
      [] k \in { "SERVER", "Server" } -> "SERVER"
      [] k \in { "WAKEUP", "wakeup" } -> "WAKEUP"
      [] OTHER -> k

\* The loop over response.split("\n"): lines without a colon are skipped and
\* a later line overwrites an earlier one with the same upper-cased key.
ParseHeaders(dg) ==
    LET idx == { i \in 1..Len(dg.lines) : dg.lines[i].colon }
        keys == { ToUpperCase(dg.lines[i].key) : i \in idx }
        last(k) == CHOOSE i \in idx :
                      /\ ToUpperCase(dg.lines[i].key) = k
                      /\ \A j \in idx : ToUpperCase(dg.lines[j].key) = k => j <= i
    IN  [k \in keys |-> dg.lines[last(k)].value]

\* `if (obj.LOCATION)`: the header is present and its value is not ""
HasLocation(obj) == "LOCATION" \in DOMAIN obj /\ obj["LOCATION"] # ""

\* /WAKEUP:\s*MAC=([0-9a-fA-F:]+)/ on one line; the pattern is case-sensitive
LineMacMatch(line) ==
    /\ line.colon
    /\ line.key = "WAKEUP"
    /\ line.value \in { "MAC=AA:BB:CC:DD:EE:FF", "MAC=11:22:33:44:55:66" }

\* macMatch[1]
LineMac(line) ==
    IF line.value = "MAC=AA:BB:CC:DD:EE:FF" THEN MacA ELSE MacB

\* response.match(...): the first match in the text, else the sentinel
MacAddress(dg) ==
    LET hits == { i \in 1..Len(dg.lines) : LineMacMatch(dg.lines[i]) }
    IN  IF hits = {} THEN SentinelMac
        ELSE LineMac(dg.lines[CHOOSE i \in hits : \A j \in hits : i <= j])

\* tag matches /<friendlyName>/i
IsFriendlyNameTag(t) == t \in { "friendlyName", "FRIENDLYNAME" }

\* [...result.matchAll(regexp)]?.[0]?.[1]
FirstFriendlyName(doc) ==
    LET hits == { i \in 1..Len(doc) : IsFriendlyNameTag(doc[i].tag) }
    IN  IF hits = {} THEN Undefined
        ELSE doc[CHOOSE i \in hits : \A j \in hits : i <= j].text

\* A catch block that loses the fallback name.
ResolvedName_NoFallback(fallback, outcome) ==
    IF outcome.threw THEN Undefined ELSE FirstFriendlyName(outcome.text)

\* The try/catch around the fetch: the value of friendlyName after it.
ResolvedName(fallback, outcome) ==
    IF outcome.threw THEN fallback ELSE FirstFriendlyName(outcome.text)

\* A filter that ignores case: it also accepts "samsung".
AcceptsDatagram_AnyCase(dg) ==
    \E i \in 1..Len(dg.lines) :
        dg.lines[i].value \in { "Samsung UPnP SDK/1.0", "Linux UPnP/1.0 samsung" }

\* `if (response.includes('Samsung'))`
AcceptsDatagram(dg) == IncludesSamsung(dg)

\* A stop condition that only looks at the clock.
ShouldResolve_TimeoutOnly(devs, elapsedTime, timeMs) ==
    elapsedTime >= timeMs

\* A stop condition with `>` for `>=`.
ShouldResolve_Strict(devs, elapsedTime, timeMs) ==
    Len(devs) > 0 \/ elapsedTime > timeMs

\* A stop condition that only looks at the list.
ShouldResolve_DevicesOnly(devs, elapsedTime, timeMs) ==
    Len(devs) > 0

\* `if (devices.length > 0 || elapsedTime >= timeMs)`
ShouldResolve(devs, elapsedTime, timeMs) ==
    Len(devs) > 0 \/ elapsedTime >= timeMs

-----------------------------------------------------------------------------
(* JavaScript values and the cache file *)

\* An own-property list in insertion order: << [key, val], ... >>
\* `elems` are the indexed elements of an array.
JsValue(t, elems, props) == [t |-> t, elems |-> elems, props |-> props]
JsObject(props) == JsValue("object", << >>, props)
JsArray(elems, props) == JsValue("array", elems, props)
JsNull == JsValue("null", << >>, << >>)
JsNumber == JsValue("number", << >>, << >>)
JsString == JsValue("string", << >>, << >>)

\* `{}`
EmptyObject == JsObject(<< >>)

Property(k, v) == [key |-> k, val |-> v]

\* The cache file: absent, unreadable, or a text.  A text is either the
\* serialisation of a JSON value or not JSON at all.
NoFile == [kind |-> "missing"]
UnreadableFile == [kind |-> "unreadable"]
GarbageText == [kind |-> "text", valid |-> FALSE]
JsonText(v) == [kind |-> "text", valid |-> TRUE, value |-> v]

OldTv == DeviceInfo("Old Name", "192.168.1.99", MacA)
OtherTv == DeviceInfo("Kitchen TV", "192.168.1.30", MacB)

\* Cache files the program can find when it starts.
InitialFiles ==
    { NoFile, UnreadableFile, GarbageText,
      JsonText(JsNull), JsonText(JsNumber), JsonText(JsString),
      JsonText(JsArray(<< OtherTv >>, << >>)),
      JsonText(JsObject(<< Property(MacB, OtherTv), Property(MacA, OldTv) >>)) }

\* typeof
Typeof(v) == IF v.t \in { "object", "array", "null" } THEN "object" ELSE v.t

\* Lines 121-126: readFile and JSON.parse inside try/catch, then the typeof
\* test.  A throw of either leaves `result` at `{}`.
LoadResult(f) ==
    LET parsed == IF f.kind = "text" /\ f.valid THEN f.value ELSE EmptyObject
    IN  IF Typeof(parsed) # "object" THEN EmptyObject ELSE parsed

\* Index of own property k in a property list, 0 when absent
IndexOfKey(props, k) ==
    IF \E i \in 1..Len(props) : props[i].key = k
    THEN CHOOSE i \in 1..Len(props) : props[i].key = k
    ELSE 0

HasKey(props, k) == IndexOfKey(props, k) # 0

\* An assignment that keeps the entry a key already has.
SetKey_KeepFirst(props, k, v) ==
    IF HasKey(props, k) THEN props ELSE Append(props, Property(k, v))

\* An assignment that always adds an entry.
SetKey_AppendAlways(props, k, v) == Append(props, Property(k, v))

\* props[k] = v: an existing key keeps its place, a new key goes last
SetKey(props, k, v) ==
    IF HasKey(props, k)
    THEN [props EXCEPT ![IndexOfKey(props, k)] = Property(k, v)]
    ELSE Append(props, Property(k, v))

\* `result[device.mac] = device` on an object or an array (a MAC is never an
\* array index, so on an array it is a named property)
SetProperty(v, k, x) == [v EXCEPT !.props = SetKey(v.props, k, x)]

\* The loop of lines 130-132 over the list
RECURSIVE MergeDevices(_, _)
MergeDevices(v, list) ==
    IF list = << >> THEN v
    ELSE MergeDevices(SetProperty(v, Head(list).mac, Head(list)), Tail(list))

\* `null[device.mac] = device` throws a TypeError
MergeThrows(v, list) == v.t = "null" /\ Len(list) > 0

\* JSON.stringify of a record: a property whose value is undefined is left out
DeviceJson(rec) ==
    IF "friendlyName" \in DOMAIN rec /\ rec.friendlyName # Undefined
    THEN rec
    ELSE [ip |-> rec.ip, mac |-> rec.mac]

\* JSON.stringify(result): the named properties of an array are left out
Stringify(v) ==
    CASE v.t = "object" ->
           JsObject([i \in 1..Len(v.props) |->
                        Property(v.props[i].key, DeviceJson(v.props[i].val))])
      [] v.t = "array" ->
           JsArray([i \in 1..Len(v.elems) |-> DeviceJson(v.elems[i])], << >>)
      [] OTHER -> v

\* Object.values(result): indexed elements first, then the named properties
ObjectValues(v) ==
    v.elems \o [i \in 1..Len(v.props) |-> v.props[i].val]

\* Object.values(null) throws a TypeError
ValuesThrows(v) == v.t = "null"

-----------------------------------------------------------------------------
(* The state machine *)

RemoveAt(s, i) == SubSeq(s, 1, i - 1) \o SubSeq(s, i + 1, Len(s))

\* A continuation of getCachedSamsungDevices or of main is queued as a
\* microtask: it runs before the event loop takes the next callback.
MicrotaskPending_Never == FALSE

MicrotaskPending ==
    \/ pc = "merge"
    \/ (mainPc = "awaitDevices" /\ pc \in { "returned", "rejected" })

\* process.exit() has ended the process: no callback runs any more.
ProcessExited == mainPc = "exited"

\* The value `undefined` of `selectedDevice`: what it holds before line 154
\* has run, and what indexing the list outside its range gives.
NoDevice == [undefined |-> TRUE]

\* `remote` before line 177 has run
NoRemote == [bound |-> FALSE]

Init ==
    /\ file \in InitialFiles
    /\ pc = "idle"
    /\ result = EmptyObject
    /\ returned = << >>
    /\ socket = "none"
    /\ queries = 0
    /\ interval = FALSE
    /\ promise = "none"
    /\ now = 0
    /\ startTime = 0
    /\ devices = << >>
    /\ inflight = << >>
    /\ received = << >>
    /\ resolvedWith = 0
    /\ closes = 0
    /\ mainPc = "open"
    /\ rawMode = FALSE
    /\ exitCode = 0
    /\ selectedDevice = NoDevice
    /\ remote = NoRemote
    /\ reads = << >>
    /\ sent = << >>

\* Lines 145-148: the open of /dev/stdin settles; main engages raw mode and
\* calls getCachedSamsungDevices, which runs to its `await readFile`.  A
\* failed open, or a stdin that is no terminal, rejects main.
MainStart(ok) ==
    /\ mainPc = "open"
    /\ IF ok
       THEN /\ rawMode' = TRUE
            /\ mainPc' = "awaitDevices"
            /\ pc' = "read"
       ELSE /\ mainPc' = "failed"
            /\ UNCHANGED << rawMode, pc >>
    /\ UNCHANGED << file, result, returned, socket, queries, interval, promise,
                    now, startTime, devices, inflight, received, resolvedWith,
                    closes, exitCode, selectedDevice, remote, reads, sent >>

\* Lines 121-126 and then the call of getSamsungDevices() up to the `await`:
\* lines 30-33 and 96-107 create the socket, bind it and arm the timer.
ReadCache ==
    /\ pc = "read"
    /\ result' = LoadResult(file)
    /\ socket' = "open"
    /\ startTime' = now
    /\ interval' = TRUE
    /\ promise' = "pending"
    /\ devices' = << >>
    /\ pc' = "discover"
    /\ UNCHANGED << file, returned, queries, now, inflight, received >>
    /\ UNCHANGED << resolvedWith, closes, mainVars >>

\* Lines 44-57: the 'listening' callback sends the M-SEARCH; a send error is
\* only logged.
Listening ==
    /\ socket = "open"
    /\ ~MicrotaskPending
    /\ socket' = "listening"
    /\ queries' = queries + 1
    /\ UNCHANGED << file, pc, result, returned, interval, promise, now,
                    startTime, devices, inflight, received >>
    /\ UNCHANGED << resolvedWith, closes, mainVars >>

\* Lines 59-94 up to the first await: the handler either returns, or pushes a
\* record at once, or suspends at `await fetch(obj.LOCATION)`.
OnMessage(dg) ==
    /\ socket = "listening"
    /\ ~MicrotaskPending
    /\ Len(received) < MaxDatagrams
    /\ received' = Append(received, dg)
    /\ IF AcceptsDatagram(dg)
       THEN LET obj == ParseHeaders(dg)
            IN  IF HasLocation(obj)
                THEN /\ inflight' = Append(inflight,
                                       [response |-> dg, location |-> obj["LOCATION"]])
                     /\ UNCHANGED devices
                ELSE /\ devices' = Append(devices,
                                      DeviceInfo(dg.address, dg.address, MacAddress(dg)))
                     /\ UNCHANGED inflight
       ELSE UNCHANGED << devices, inflight >>
    /\ UNCHANGED << file, pc, result, returned, socket, queries, interval,
                    promise, now, startTime >>
    /\ UNCHANGED << resolvedWith, closes, mainVars >>

\* Lines 78-91: the fetch of handler i settles and the handler runs to its end.
FetchDone(i, outcome) ==
    /\ i \in 1..Len(inflight)
    /\ outcome \in FetchOutcomes(inflight[i].location)
    /\ ~MicrotaskPending
    /\ ~ProcessExited
    /\ LET dg == inflight[i].response
       IN  devices' = Append(devices,
                         DeviceInfo(ResolvedName(dg.address, outcome),
                                    dg.address, MacAddress(dg)))
    /\ inflight' = RemoveAt(inflight, i)
    /\ UNCHANGED << file, pc, result, returned, socket, queries, interval,
                    promise, now, startTime, received >>
    /\ UNCHANGED << resolvedWith, closes, mainVars >>

\* Line 105: clearInterval(interval) disarms the timer
ClearInterval_StillArmed(armed) == armed

ClearInterval(armed) == FALSE

\* Lines 99-107: one run of the setInterval callback, d ms after the previous
\* one.  resolve() queues the continuation of the caller's await.
IntervalTick(d) ==
    /\ interval
    /\ ~MicrotaskPending
    /\ now' = now + d
    /\ IF ShouldResolve(devices, now' - startTime, TimeMs)
       THEN /\ promise' = "fulfilled"
            /\ resolvedWith' = Len(devices)
            /\ socket' = "closed"
            /\ closes' = closes + 1
            /\ interval' = ClearInterval(interval)
            /\ pc' = "merge"
       ELSE UNCHANGED << promise, socket, interval, pc, resolvedWith, closes >>
    /\ UNCHANGED << file, result, returned, queries, startTime, devices,
                    inflight, received >>
    /\ UNCHANGED mainVars

\* Lines 130-134: the loop over the resolved array, then the call of writeFile.
Merge ==
    /\ pc = "merge"
    /\ IF MergeThrows(result, devices)
       THEN /\ pc' = "rejected"
            /\ UNCHANGED result
       ELSE /\ result' = MergeDevices(result, devices)
            /\ pc' = "write"
    /\ UNCHANGED << file, returned, socket, queries, interval, promise, now,
                    startTime, devices, inflight, received >>
    /\ UNCHANGED << resolvedWith, closes, mainVars >>

\* Line 134: fs.promises.writeFile overwrites the file, or fails and leaves
\* it as it was or truncated.
WriteFile(outcome) ==
    /\ pc = "write"
    /\ CASE outcome = "ok" ->
              /\ file' = JsonText(Stringify(result))
              /\ pc' = "written"
         [] outcome = "failed" ->
              /\ file' = file
              /\ pc' = "rejected"
         [] outcome = "truncated" ->
              /\ file' = GarbageText
              /\ pc' = "rejected"
    /\ UNCHANGED << result, returned, socket, queries, interval, promise, now,
                    startTime, devices, inflight, received >>
    /\ UNCHANGED << resolvedWith, closes, mainVars >>

\* Line 136
Return ==
    /\ pc = "written"
    /\ IF ValuesThrows(result)
       THEN /\ pc' = "rejected"
            /\ UNCHANGED returned
       ELSE /\ returned' = ObjectValues(result)
            /\ pc' = "returned"
    /\ UNCHANGED << file, result, socket, queries, interval, promise, now,
                    startTime, devices, inflight, received >>
    /\ UNCHANGED << resolvedWith, closes, mainVars >>

-----------------------------------------------------------------------------
(* main, from the device list to the wake command *)

\* Line 149: `devices.length == 0`
NoDevices_Never(list) == FALSE

NoDevices(list) == Len(list) = 0

\* Line 156: `devices.length > 1`
NeedsPrompt(list) == Len(list) > 1

\* `devices[number]`: an index outside the list gives undefined
ElementAt(list, number) ==
    IF number \in 0..(Len(list) - 1) THEN list[number + 1] ELSE NoDevice

\* Lines 175-180: reading `.ip` of undefined throws a TypeError
BindThrows(device) == device = NoDevice

\* Lines 177-180: new SamsungTvRemote({ ip: selectedDevice.ip, mac: ... })
NewRemote(device) == [bound |-> TRUE, ip |-> device.ip, mac |-> device.mac]

\* One call on `remote`: its method and the key codes passed to it
RemoteCall(method, codes) == [op |-> method, keys |-> codes]

\* Line 181: the calls made on the new remote before the control loop
WakeCalls_None == << >>

WakeCalls == << RemoteCall("wakeTV", << >>) >>

\* Lines 148-181, to the next await: getCachedSamsungDevices has returned.
\* With no device the process exits with -1; with one device the remote is
\* constructed and wakeTV called; with more, main waits for the first key.
MainResume ==
    /\ mainPc = "awaitDevices"
    /\ pc = "returned"
    /\ IF NoDevices(returned)
       THEN /\ mainPc' = "exited"
            /\ exitCode' = -1
            /\ UNCHANGED << selectedDevice, remote, sent >>
       ELSE /\ selectedDevice' = ElementAt(returned, 0)
            /\ exitCode' = exitCode
            /\ IF NeedsPrompt(returned)
               THEN /\ mainPc' = "select"
                    /\ UNCHANGED << remote, sent >>
               ELSE IF BindThrows(selectedDevice')
                    THEN /\ mainPc' = "failed"
                         /\ UNCHANGED << remote, sent >>
                    ELSE /\ remote' = NewRemote(selectedDevice')
                         /\ sent' = sent \o WakeCalls
                         /\ mainPc' = "waking"
    /\ UNCHANGED << discoveryVars, rawMode, reads >>

\* Line 148 throws what getCachedSamsungDevices rejected with; line 234
\* logs it.  Nothing of main runs any more.
MainRejected ==
    /\ mainPc = "awaitDevices"
    /\ pc = "rejected"
    /\ mainPc' = "failed"
    /\ UNCHANGED << discoveryVars, rawMode, exitCode, selectedDevice, remote,
                    reads, sent >>

Tick == \E d \in TickDelays : IntervalTick(d)

Next ==
    \/ \E ok \in BOOLEAN : MainStart(ok)
    \/ MainResume
    \/ MainRejected
    \/ ReadCache
    \/ Listening
    \/ \E dg \in Datagrams : OnMessage(dg)
    \/ \E i \in 1..MaxDatagrams : \E outcome \in FetchOutcomes(UrlTv) : FetchDone(i, outcome)
    \/ Tick
    \/ Merge
    \/ \E outcome \in { "ok", "failed", "truncated" } : WriteFile(outcome)
    \/ Return

Spec == Init /\ [][Next]_vars

\* The timer of setInterval keeps firing while it is armed.
FairSpec == Spec /\ WF_vars(Tick)

-----------------------------------------------------------------------------
(* main: the terminal, the selection loop and the control loop *)

\* Bytes a read of /dev/stdin delivers: control characters by name,
\* printable characters as themselves
Nul == "<NUL>"
Esc == "<ESC>"
Del == "<DEL>"
Cr  == "<CR>"
Etx == "<ETX>"

\* What one `fileHandle.read(buffer, 0, 3, null)` can deliver: 0 to 3 bytes.
\* One key press (1 byte, or the 3 bytes of an arrow), two keys in one read,
\* an arrow sequence split over reads, NUL bytes, end of input.
RawReads ==
    { << c >> : c \in { "0", "1", "2", "3", "4", "5", "6", "7", "8", "9",
                        Del, Esc, Cr, Etx, "p", "+", "-", "w", "s", "q", "f",
                        "z" } }
      \cup { << Esc, "[", c >> : c \in { "A", "B", "C", "D" } }
      \cup { << >>, << Esc, "[" >>, << "[", "A" >>, << "1", "2" >>,
             << "1", "a" >>, << "1", Nul >>, << Nul, "q" >> }

\* Lines 167 and 189: buffer.slice(0, bytesRead).toString().replace(/\u0000/g, '')
StripNul(bytes) == SelectSeq(bytes, LAMBDA b : b # Nul)

\* `key`: the text of the bytes of this read, and of no other
KeyOf_CarryEscape(bytes) ==
    IF reads # << >> /\ StripNul(reads[Len(reads)].bytes) = << Esc >>
    THEN << Esc >> \o StripNul(bytes)
    ELSE StripNul(bytes)

KeyOf(bytes) == StripNul(bytes)

DigitChars == << "0", "1", "2", "3", "4", "5", "6", "7", "8", "9" >>

IsDigit(c) == \E i \in 1..Len(DigitChars) : DigitChars[i] = c

DigitValue(c) == (CHOOSE i \in 1..Len(DigitChars) : DigitChars[i] = c) - 1

\* parseInt's result: NaN or an integer
NaN == [nan |-> TRUE]
Number(n) == [nan |-> FALSE, value |-> n]

\* parseInt skips leading white space (CR is white space)
RECURSIVE TrimStart(_)
TrimStart(str) ==
    IF str # << >> /\ Head(str) = Cr THEN TrimStart(Tail(str)) ELSE str

\* The longest prefix of decimal digits
RECURSIVE DigitPrefix(_)
DigitPrefix(str) ==
    IF str # << >> /\ IsDigit(Head(str))
    THEN << Head(str) >> \o DigitPrefix(Tail(str))
    ELSE << >>

RECURSIVE DecimalValue(_, _)
DecimalValue(digits, acc) ==
    IF digits = << >> THEN acc
    ELSE DecimalValue(Tail(digits), 10 * acc + DigitValue(Head(digits)))

\* Line 169: parseInt(key): white space, an optional sign, then the longest
\* prefix of digits; NaN when there is no digit there.
ParseInt(key) ==
    LET trimmed  == TrimStart(key)
        signed   == trimmed # << >> /\ Head(trimmed) \in { "+", "-" }
        unsigned == IF signed THEN Tail(trimmed) ELSE trimmed
        digits   == DigitPrefix(unsigned)
        value    == DecimalValue(digits, 0)
    IN  IF digits = << >> THEN NaN
        ELSE IF signed /\ Head(trimmed) = "-" THEN Number(0 - value)
        ELSE Number(value)

\* Line 170: devices[number]; devices[NaN] is undefined
Index(list, number) ==
    IF number.nan THEN NoDevice ELSE ElementAt(list, number.value)

\* Line 171: `if (selectedDevice)`
Truthy(device) == device # NoDevice

\* What one case of the switch of lines 193-230 does
SendKey(code) == [do |-> "sendKey", code |-> code]
PowerOff == [do |-> "sendKeys", code |-> "KEY_POWER"]
Exit == [do |-> "exit"]
Nothing == [do |-> "nothing"]

\* Lines 193-230: the switch on `key`
Switch_WIsUp(key) ==
    CASE key = << Esc, "[", "A" >> -> SendKey("KEY_UP")
      [] key = << "w" >> -> SendKey("KEY_UP")
      [] key = << "q" >> -> PowerOff
      [] OTHER -> Nothing

Switch(key) ==
    CASE key = << "0" >> -> SendKey("KEY_0")
      [] key = << "1" >> -> SendKey("KEY_1")
      [] key = << "2" >> -> SendKey("KEY_2")
      [] key = << "3" >> -> SendKey("KEY_3")
      [] key = << "4" >> -> SendKey("KEY_4")
      [] key = << "5" >> -> SendKey("KEY_5")
      [] key = << "6" >> -> SendKey("KEY_6")
      [] key = << "7" >> -> SendKey("KEY_7")
      [] key = << "8" >> -> SendKey("KEY_8")
      [] key = << "9" >> -> SendKey("KEY_9")
      [] key = << Esc, "[", "A" >> -> SendKey("KEY_UP")
      [] key = << Esc, "[", "B" >> -> SendKey("KEY_DOWN")
      [] key = << Esc, "[", "C" >> -> SendKey("KEY_RIGHT")
      [] key = << Esc, "[", "D" >> -> SendKey("KEY_LEFT")
      [] key = << Del >> -> SendKey("KEY_BACK_MHP")
      [] key = << Esc >> -> SendKey("KEY_HOME")
      [] key = << Cr >> -> SendKey("KEY_ENTER")
      [] key = << "p" >> -> SendKey("KEY_PLAY")
      [] key = << "+" >> -> SendKey("KEY_VOLUP")
      [] key = << "-" >> -> SendKey("KEY_VOLDOWN")
      [] key = << "w" >> -> SendKey("KEY_CHUP")
      [] key = << "s" >> -> SendKey("KEY_CHDOWN")
      [] key = << "q" >> -> PowerOff
      [] key = << Etx >> -> Exit
      [] key = << "f" >> -> Exit
      [] OTHER -> Nothing

\* One read of /dev/stdin: the loop that made it and the bytes it delivered
Read(loop, bytes) == [loop |-> loop, bytes |-> bytes]

\* Lines 166-181: a read of the selection loop completes.  'q' exits with
\* -1; a key that indexes a device leaves the loop, constructs the remote and
\* calls wakeTV; any other key goes round the loop to the next read.
SelectRead(bytes) ==
    /\ mainPc = "select"
    /\ Len(reads) < MaxReads
    /\ reads' = Append(reads, Read("select", bytes))
    /\ LET key == KeyOf(bytes)
       IN  IF key = << "q" >>
           THEN /\ mainPc' = "exited"
                /\ exitCode' = -1
                /\ UNCHANGED << selectedDevice, remote, sent >>
           ELSE /\ selectedDevice' = Index(returned, ParseInt(key))
                /\ exitCode' = exitCode
                /\ IF ~Truthy(selectedDevice')
                   THEN UNCHANGED << mainPc, remote, sent >>
                   ELSE IF BindThrows(selectedDevice')
                        THEN /\ mainPc' = "failed"
                             /\ UNCHANGED << remote, sent >>
                        ELSE /\ remote' = NewRemote(selectedDevice')
                             /\ sent' = sent \o WakeCalls
                             /\ mainPc' = "waking"
    /\ UNCHANGED << discoveryVars, rawMode >>

\* Lines 181-187: wakeTV settles.  Fulfilled, main enters the control loop
\* and waits for a key; rejected, main rejects.
WakeDone(ok) ==
    /\ mainPc = "waking"
    /\ mainPc' = IF ok THEN "loop" ELSE "failed"
    /\ UNCHANGED << discoveryVars, rawMode, exitCode, selectedDevice, remote,
                    reads, sent >>

\* Lines 187-230, to the next await: a read of the control loop completes
\* and the switch runs.
LoopRead(bytes) ==
    /\ mainPc = "loop"
    /\ Len(reads) < MaxReads
    /\ reads' = Append(reads, Read("control", bytes))
    /\ LET case == Switch(KeyOf(bytes))
       IN  CASE case.do = "sendKey" ->
                  /\ sent' = Append(sent, RemoteCall("sendKey", << case.code >>))
                  /\ mainPc' = "sending"
             [] case.do = "sendKeys" ->
                  /\ sent' = Append(sent, RemoteCall("sendKeys", << case.code >>))
                  /\ mainPc' = "poweringOff"
             [] case.do = "exit" ->
                  /\ mainPc' = "exited"
                  /\ sent' = sent
             [] case.do = "nothing" ->
                  /\ mainPc' = "loop"
                  /\ sent' = sent
    /\ UNCHANGED << discoveryVars, rawMode, exitCode, selectedDevice, remote >>

\* Lines 194-216: sendKey settles.  Fulfilled, the loop goes on to the next
\* read; rejected, main rejects.
SendDone(ok) ==
    /\ mainPc = "sending"
    /\ mainPc' = IF ok THEN "loop" ELSE "failed"
    /\ UNCHANGED << discoveryVars, rawMode, exitCode, selectedDevice, remote,
                    reads, sent >>

\* Lines 218-220: sendKeys([KEY_POWER]) settles.  Fulfilled, process.exit()
\* ends the process with the default code; rejected, main rejects.
PowerOffDone(ok) ==
    /\ mainPc = "poweringOff"
    /\ mainPc' = IF ok THEN "exited" ELSE "failed"
    /\ UNCHANGED << discoveryVars, rawMode, exitCode, selectedDevice, remote,
                    reads, sent >>

\* The record the handler pushes for a reply without a LOCATION header
RecordOf(dg) == DeviceInfo(dg.address, dg.address, MacAddress(dg))

\* The runs of discovery and cache the session is started from: the cache
\* file found, the replies received (none with a LOCATION), and whether the
\* cache file was written.
SessionRuns ==
    { [found |-> f, replies |-> r, wrote |-> w] :
        f \in { NoFile,
                JsonText(JsObject(<< Property(MacB, OtherTv), Property(MacA, OldTv) >>)) },
        r \in { << >>, << DgNoLocation >> },
        w \in BOOLEAN }

\* The state in which getCachedSamsungDevices has settled after such a run
\* and main is about to resume at line 148.
SessionInit ==
    \E run \in SessionRuns :
      LET list   == [i \in 1..Len(run.replies) |-> RecordOf(run.replies[i])]
          merged == MergeDevices(LoadResult(run.found), list)
      IN  /\ received = run.replies
          /\ devices = list
          /\ inflight = << >>
          /\ result = merged
          /\ file = IF run.wrote THEN JsonText(Stringify(merged)) ELSE run.found
          /\ returned = IF run.wrote THEN ObjectValues(merged) ELSE << >>
          /\ pc = IF run.wrote THEN "returned" ELSE "rejected"
          /\ socket = "closed"
          /\ queries = 1
          /\ interval = FALSE
          /\ promise = "fulfilled"
          /\ startTime = 0
          /\ now = IF list = << >> THEN TimeMs ELSE TickMs
          /\ resolvedWith = Len(list)
          /\ closes = 1
          /\ mainPc = "awaitDevices"
          /\ rawMode = TRUE
          /\ exitCode = 0
          /\ selectedDevice = NoDevice
          /\ remote = NoRemote
          /\ reads = << >>
          /\ sent = << >>

SessionNext ==
    \/ MainResume
    \/ MainRejected
    \/ \E bytes \in RawReads : SelectRead(bytes)
    \/ \E ok \in BOOLEAN : WakeDone(ok)
    \/ \E bytes \in RawReads : LoopRead(bytes)
    \/ \E ok \in BOOLEAN : SendDone(ok)
    \/ \E ok \in BOOLEAN : PowerOffDone(ok)

SessionSpec == SessionInit /\ [][SessionNext]_vars

-----------------------------------------------------------------------------
(* Properties *)

elapsed == now - startTime
elapsedNext == now' - startTime

\* The replies among the delivered datagrams that carry the brand marker
SamsungReplies == { j \in 1..Len(received) : IncludesSamsung(received[j]) }

\* C1 as stated: at every poll tick that runs before the window has elapsed
\* and after a reply with the marker has arrived, getSamsungDevices returns a
\* non-empty list, whatever the reply's LOCATION and however long its fetch
\* takes.
C1_AsClaimed ==
    [][ (Tick /\ SamsungReplies # {} /\ elapsedNext < TimeMs)
          => (pc' = "merge" /\ promise' = "fulfilled" /\ devices' # << >>) ]_vars

\* C1, amended: at every poll tick that runs after a record has been appended
\* (a reply with the marker and no usable LOCATION, or one whose fetch has
\* settled), getSamsungDevices returns the non-empty list at that tick
\* without waiting for the window; while every reply with the marker is still
\* waiting for its fetch, it does not return before the window has elapsed.
C1_EarlyReturn ==
    [][ Tick =>
          /\ devices # << >> =>
                (pc' = "merge" /\ promise' = "fulfilled" /\ ~interval'
                   /\ devices' = devices)
          /\ (devices = << >> /\ inflight # << >> /\ elapsedNext < TimeMs) =>
                (promise' = "pending" /\ pc' = "discover") ]_vars

\* C1's case: discovery has just returned a resolved record before the window
\* elapsed.
C1_Witness ==
    /\ pc = "merge"
    /\ elapsed < TimeMs
    /\ \E i \in 1..Len(devices) : devices[i].friendlyName = "Living Room TV"

\* C2: with no device collected, a poll tick below windowMs does not return
\* and the first tick at or above windowMs returns the empty list; at every
\* tick getSamsungDevices returns if and only if a device has been collected
\* or the elapsed time has reached windowMs.
C2_TimeoutCase ==
    [][ Tick =>
          /\ (promise' = "fulfilled") <=> (Len(devices) > 0 \/ elapsedNext >= TimeMs)
          /\ (Len(devices) = 0 /\ elapsedNext < TimeMs) =>
                (promise' = "pending" /\ pc' = "discover" /\ interval')
          /\ (Len(devices) = 0 /\ elapsedNext >= TimeMs) =>
                (pc' = "merge" /\ devices' = << >>) ]_vars

\* C2's case: discovery has just returned the empty list at the tick at which
\* the elapsed time equals the window.
C2_Witness ==
    /\ pc = "merge"
    /\ devices = << >>
    /\ elapsed = TimeMs

\* C3: with a fair poll timer every call of getSamsungDevices returns, its
\* promise never rejects, and the tick at which the elapsed time has reached
\* windowMs returns even when descriptor fetches are still in flight.
C3_NeverBlocked ==
    /\ (pc = "discover") ~> (promise = "fulfilled")
    /\ [](promise \in { "none", "pending", "fulfilled" })
    /\ [][ (Tick /\ elapsedNext >= TimeMs)
             => (promise' = "fulfilled" /\ pc' = "merge" /\ inflight' = inflight) ]_vars

\* C3's case: discovery has returned on the timeout while two fetches were
\* still in flight.
C3_Witness ==
    /\ pc = "merge"
    /\ elapsed >= TimeMs
    /\ Len(inflight) = 2
    /\ devices = << >>

\* C4: a datagram without the marker produces no record and starts no fetch,
\* every record and every fetch comes from a datagram with the marker, and
\* without such a datagram discovery returns only on the timeout, empty.
C4_BrandFilter ==
    /\ Len(devices) + Len(inflight) = Cardinality(SamsungReplies)
    /\ \A i \in 1..Len(devices) :
          \E j \in SamsungReplies :
             /\ devices[i].ip = received[j].address
             /\ devices[i].mac = MacAddress(received[j])
    /\ \A i \in 1..Len(inflight) :
          \E j \in SamsungReplies : inflight[i].response = received[j]
    /\ (promise = "fulfilled" /\ SamsungReplies = {}) =>
          (elapsed >= TimeMs /\ devices = << >>)

\* C4's case: two datagrams without the marker were delivered and discovery
\* returned on the timeout.
C4_Witness ==
    /\ pc = "merge"
    /\ Len(received) = 2
    /\ DgOther = received[1]
    /\ SamsungReplies = {}

\* The record the handler of datagram dg should push according to C5 when its
\* fetch settles with `outcome`.
NameHasElement(outcome) ==
    /\ ~outcome.threw
    /\ \E i \in 1..Len(outcome.text) : IsFriendlyNameTag(outcome.text[i].tag)

\* C5 as stated: the record a reply appends carries the extracted name when
\* the fetch succeeds and the document has a <friendlyName> element, and the
\* responder's IP in every other case; friendlyName is always a defined
\* string.
C5_AsClaimed ==
    [][ \A i \in 1..MaxDatagrams : \A outcome \in FetchOutcomes(UrlTv) :
          FetchDone(i, outcome) =>
             LET rec == devices'[Len(devices')]
                 dg == inflight[i].response
             IN  /\ rec.friendlyName # Undefined
                 /\ NameHasElement(outcome) =>
                       rec.friendlyName = FirstFriendlyName(outcome.text)
                 /\ ~NameHasElement(outcome) => rec.friendlyName = dg.address ]_vars

IsObjectFile(f) == f.kind = "text" /\ f.valid /\ f.value.t = "object"

\* C6 as stated: a cache file that is missing, unreadable, not JSON, or JSON
\* that is not an object loads as the empty mapping, and the mapping that is
\* written afterwards holds exactly freshly discovered records.
C6_AsClaimed ==
    ~IsObjectFile(file) =>
       /\ pc \in { "discover", "merge" } => result = EmptyObject
       /\ pc = "write" =>
             /\ result.t = "object"
             /\ \A j \in 1..Len(result.props) :
                   \E i \in 1..Len(devices) : result.props[j].val = devices[i]

\* C7: merging the fresh list into a loaded mapping gives the mapping whose
\* keys are the loaded keys and the fresh MACs, each key once; a MAC of the
\* fresh list maps to the whole last record of the list with that MAC and
\* every other key keeps its loaded entry.
C7_LastWriteWins ==
    [][ (Merge /\ result.t = "object") =>
          LET old == result.props
              new == result'.props
              fresh == { i \in 1..Len(devices) : TRUE }
              lastOf(m) == CHOOSE i \in fresh :
                              /\ devices[i].mac = m
                              /\ \A j \in fresh : devices[j].mac = m => j <= i
          IN  /\ pc' = "write"
              /\ result'.t = "object"
              /\ { new[j].key : j \in 1..Len(new) }
                    = { old[j].key : j \in 1..Len(old) } \cup { devices[i].mac : i \in fresh }
              /\ \A j, k \in 1..Len(new) : new[j].key = new[k].key => j = k
              /\ \A j \in 1..Len(new) :
                    IF \E i \in fresh : devices[i].mac = new[j].key
                    THEN new[j].val = devices[lastOf(new[j].key)]
                    ELSE \E k \in 1..Len(old) : old[k] = new[j] ]_vars

\* C7's case: a cache of two entries has been merged with two fresh records
\* of the same MAC; the second record replaced the cached entry and the other
\* entry was kept.
C7_Witness ==
    /\ pc = "write"
    /\ file = JsonText(JsObject(<< Property(MacB, OtherTv), Property(MacA, OldTv) >>))
    /\ Len(devices) = 2
    /\ devices[1].mac = MacA
    /\ devices[2].mac = MacA
    /\ devices[1] # devices[2]
    /\ result = JsObject(<< Property(MacB, OtherTv), Property(MacA, devices[2]) >>)

\* C8: merging the fresh list a second time changes nothing, and a second run
\* that loads the file just written and discovers the same list writes the
\* same content.
C8_MergeIdempotent ==
    [][ (Merge /\ pc' = "write") =>
          /\ MergeDevices(result', devices) = result'
          /\ LET written == JsonText(Stringify(result'))
                 again == MergeDevices(LoadResult(written), devices)
             IN  JsonText(Stringify(again)) = written ]_vars

\* C8's case: a loaded mapping has been merged with a fresh list that holds
\* one of its MACs twice.
C8_Witness ==
    /\ pc = "write"
    /\ IsObjectFile(file)
    /\ Len(devices) = 2
    /\ devices[1].mac = devices[2].mac
    /\ devices[1] # devices[2]
    /\ HasKey(file.value.props, devices[1].mac)
    /\ HasKey(result.props, devices[1].mac)

\* C9 as stated: whenever getCachedSamsungDevices hands over its list, the
\* file holds the merged mapping, the list is the values of that mapping, and
\* loading the file again yields the same mapping.
C9_AsClaimed ==
    pc = "returned" =>
       /\ file.kind = "text" /\ file.valid
       /\ file.value = result
       /\ returned = ObjectValues(result)
       /\ LoadResult(file) = result

\* The scenario of C10: exactly one delivered datagram carries the marker; it
\* has the WAKEUP MAC AA:BB:CC:DD:EE:FF and a LOCATION whose fetch can only
\* fail.
OneUnreachableReply ==
    /\ Cardinality(SamsungReplies) = 1
    /\ \A j \in SamsungReplies :
          /\ MacAddress(received[j]) = MacA
          /\ HasLocation(ParseHeaders(received[j]))
          /\ FetchOutcomes(ParseHeaders(received[j])["LOCATION"]) = { Threw }

\* The cache C10 expects for the reply of source address ip
FallbackCache(ip) == JsObject(<< Property(MacA, DeviceInfo(ip, ip, MacA)) >>)

\* C10 as stated: with no cache file and that one reply, the file written
\* holds exactly one entry, keyed by the MAC, whose friendlyName and ip are
\* the reply's source IP, whenever the fetch fails.
C10_AsClaimed ==
    [][ (file = NoFile /\ OneUnreachableReply /\ pc = "write" /\ pc' = "written") =>
           \A j \in SamsungReplies : file' = JsonText(FallbackCache(received[j].address)) ]_vars

\* C10, amended: with no cache file and that one reply, when the fetch has
\* failed by the poll tick at which discovery returns, the merged mapping, the
\* file written and the mapping reloaded from it are that one entry keyed by
\* the MAC, whose friendlyName and ip are the reply's source IP.
C10_EndToEnd ==
    [][ /\ (Merge /\ file = NoFile /\ OneUnreachableReply /\ inflight = << >>) =>
              \A j \in SamsungReplies :
                 /\ pc' = "write"
                 /\ result' = FallbackCache(received[j].address)
        /\ (file = NoFile /\ pc = "write" /\ pc' = "written") =>
              /\ file' = JsonText(Stringify(result))
              /\ (\E ip \in { Ip1, Ip2 } : result = FallbackCache(ip)) =>
                    (file'.value = result /\ LoadResult(file') = result) ]_vars

\* C10's case: with no cache file, the one reply's fetch failed before
\* discovery returned and its record has been merged.
C10_Witness ==
    /\ pc = "write"
    /\ file = NoFile
    /\ OneUnreachableReply
    /\ inflight = << >>
    /\ result = FallbackCache(Ip1)

-----------------------------------------------------------------------------
(* C11 *)

\* The table of C11: each mapped frame and the key code of its command
DecodingTable ==
    { << << "0" >>, "KEY_0" >>, << << "1" >>, "KEY_1" >>,
      << << "2" >>, "KEY_2" >>, << << "3" >>, "KEY_3" >>,
      << << "4" >>, "KEY_4" >>, << << "5" >>, "KEY_5" >>,
      << << "6" >>, "KEY_6" >>, << << "7" >>, "KEY_7" >>,
      << << "8" >>, "KEY_8" >>, << << "9" >>, "KEY_9" >>,
      << << Esc, "[", "A" >>, "KEY_UP" >>,
      << << Esc, "[", "B" >>, "KEY_DOWN" >>,
      << << Esc, "[", "C" >>, "KEY_RIGHT" >>,
      << << Esc, "[", "D" >>, "KEY_LEFT" >>,
      << << Del >>, "KEY_BACK_MHP" >>,
      << << Esc >>, "KEY_HOME" >>,
      << << Cr >>, "KEY_ENTER" >>,
      << << "p" >>, "KEY_PLAY" >>,
      << << "+" >>, "KEY_VOLUP" >>,
      << << "-" >>, "KEY_VOLDOWN" >>,
      << << "w" >>, "KEY_CHUP" >>,
      << << "s" >>, "KEY_CHDOWN" >> }

PowerOffCall == RemoteCall("sendKeys", << "KEY_POWER" >>)

-----------------------------------------------------------------------------
(* C12 *)

\* The run has reached the control loop: main is in it, or a key of it has
\* been read, or a key command has been sent.
ReachedControlLoop ==
    \/ mainPc \in { "loop", "sending", "poweringOff" }
    \/ \E i \in 1..Len(reads) : reads[i].loop = "control"
    \/ \E i \in 1..Len(sent) : sent[i].op # "wakeTV"

\* C12: in a run that has reached the control loop, the remote is bound to
\* the ip and mac of the selected device, wakeTV was the first call on it
\* and the only wakeTV, and it has settled.
C12_WakePrecedesLoop ==
    ReachedControlLoop =>
      /\ selectedDevice # NoDevice
      /\ remote = [bound |-> TRUE, ip |-> selectedDevice.ip, mac |-> selectedDevice.mac]
      /\ sent # << >>
      /\ sent[1] = RemoteCall("wakeTV", << >>)
      /\ \A i \in 2..Len(sent) : sent[i].op # "wakeTV"
      /\ mainPc # "waking"

\* C12's case: a device picked at the prompt, woken, and the first key of
\* the control loop sent.
C12_Witness ==
    /\ mainPc = "sending"
    /\ Len(reads) = 2
    /\ reads[1].loop = "select"
    /\ reads[2].loop = "control"
    /\ selectedDevice = returned[2]
    /\ Len(sent) = 2

-----------------------------------------------------------------------------
(* C13 *)

InLoop(position) == position \in { "loop", "sending", "poweringOff" }

\* C13 as stated: the control loop is left only on a frame 'q', ETX or 'f',
\* and then the process exits with code 0; on 'q' the one power-off command
\* has been sent, on ETX and 'f' nothing is sent.
C13_AsClaimed ==
    [][(InLoop(mainPc) /\ ~InLoop(mainPc')) =>
         /\ reads' # << >>
         /\ StripNul(reads'[Len(reads')].bytes) \in { << "q" >>, << Etx >>, << "f" >> }
         /\ mainPc' = "exited"
         /\ exitCode' = 0
         /\ IF StripNul(reads'[Len(reads')].bytes) = << "q" >>
            THEN /\ sent'[Len(sent')] = PowerOffCall
                 /\ Cardinality({ i \in 1..Len(sent') : sent'[i] = PowerOffCall }) = 1
            ELSE sent' = sent]_vars

-----------------------------------------------------------------------------
(* C14 *)

\* A frame that is one digit and an index of the list
IsIndexFrame(frame, list) ==
    /\ Len(frame) = 1
    /\ IsDigit(frame[1])
    /\ DigitValue(frame[1]) < Len(list)

\* C14 as stated: the remote is only ever bound to an element of the
\* returned list; one device is selected without a read; at the prompt 'q'
\* exits with a non-zero code before any remote exists, a digit that is an
\* index of the list selects that device, and any other frame only
\* re-prompts.
C14_AsClaimed ==
    [][/\ remote' # remote =>
            \E i \in 1..Len(returned) : remote' = NewRemote(returned[i])
       /\ (MainResume /\ Len(returned) = 1) =>
            (remote' = NewRemote(returned[1]) /\ reads' = << >>)
       /\ \A bytes \in RawReads :
            SelectRead(bytes) =>
              LET frame == StripNul(bytes)
              IN  IF frame = << "q" >>
                  THEN /\ mainPc' = "exited"
                       /\ exitCode' # 0
                       /\ remote' = NoRemote
                       /\ sent' = << >>
                  ELSE IF IsIndexFrame(frame, returned)
                  THEN /\ remote' = NewRemote(returned[DigitValue(frame[1]) + 1])
                       /\ mainPc' = "waking"
                  ELSE /\ mainPc' = "select"
                       /\ remote' = NoRemote
                       /\ sent' = << >>]_vars

-----------------------------------------------------------------------------
(* C15 *)

\* C15 as stated: whenever the discovery pass discovers zero devices, main
\* ends the process at once with a non-zero exit code.
C15_AsClaimed ==
    [][(MainResume /\ resolvedWith = 0)
         => (mainPc' = "exited" /\ exitCode' # 0)]_vars

\* C15: when the list getCachedSamsungDevices returned is empty, main ends
\* the process with exit code -1 as soon as it resumes: no key has been read,
\* no remote constructed and no command sent.  The list holds the cached
\* devices too, so a pass that discovers nothing does not by itself end
\* the program.
C15_EmptyListFatal ==
    (pc = "returned" /\ returned = << >> /\ mainPc # "awaitDevices")
      => /\ mainPc = "exited"
         /\ exitCode = -1
         /\ remote = NoRemote
         /\ reads = << >>
         /\ sent = << >>

C15_Witness ==
    /\ pc = "returned"
    /\ returned = << >>
    /\ resolvedWith = 0
    /\ mainPc = "exited"
    /\ exitCode = -1

-----------------------------------------------------------------------------
(* C16 *)

\* C16 as stated: raw mode is on before the first read of the terminal, and
\* the terminal is out of raw mode whenever the process has terminated.
C16_AsClaimed ==
    /\ reads # << >> => rawMode
    /\ mainPc \in { "exited", "failed" } => ~rawMode

-----------------------------------------------------------------------------
(* C17 *)

\* C17: once getSamsungDevices has resolved, the socket is closed and the
\* poll timer stopped, and it stays so while the caller runs; the socket is
\* closed in no other state; close() is called at most once, and the
\* M-SEARCH is sent at most once.
C17_SocketLifetime ==
    /\ (promise = "fulfilled") = (socket = "closed")
    /\ promise = "fulfilled" => (~interval /\ closes = 1)
    /\ pc \in { "merge", "write", "written", "returned" } => promise = "fulfilled"
    /\ closes <= 1
    /\ queries <= 1

C17_Witness ==
    /\ pc = "returned"
    /\ socket = "closed"
    /\ closes = 1
    /\ queries = 1
    /\ resolvedWith > 0
    /\ now - startTime < TimeMs

-----------------------------------------------------------------------------
(* C18 *)

\* The replies the handler accepted, in the order they arrived
ArrivalOrder == SelectSeq(received, AcceptsDatagram)

\* C18 as stated: at most one descriptor fetch is in flight, and the records
\* of the device list are those of the first accepted replies, in the order
\* the replies arrived.
C18_AsClaimed ==
    /\ Len(inflight) <= 1
    /\ \A i \in 1..Len(devices) : devices[i].ip = ArrivalOrder[i].address

-----------------------------------------------------------------------------
(* C19 *)

\* The calls a read of these bytes adds, by the switch
Dispatched(bytes) ==
    LET case == Switch(StripNul(bytes))
    IN  IF case.do \in { "sendKey", "sendKeys" }
        THEN << RemoteCall(case.do, << case.code >>) >>
        ELSE << >>

\* C19: what a read of the control loop dispatches is determined by the
\* bytes of that read alone.  ESC read on its own is home, whatever comes
\* next; "[A" and ESC "[" are unmapped, whatever came before; arrow up is
\* dispatched only for a read that holds all three bytes of ESC "[A".
C19_NoCrossReadState ==
    [][\A bytes \in RawReads :
         LoopRead(bytes) =>
           /\ sent' = sent \o Dispatched(bytes)
           /\ bytes = << Esc >> =>
                sent' = Append(sent, RemoteCall("sendKey", << "KEY_HOME" >>))
           /\ bytes \in { << "[", "A" >>, << Esc, "[" >> } =>
                (sent' = sent /\ mainPc' = "loop")
           /\ (sent' # sent /\ sent'[Len(sent')].keys = << "KEY_UP" >>) =>
                bytes = << Esc, "[", "A" >>]_vars

\* C19's case: ESC came in one read and "[A" in the next; home was sent
\* and nothing else.
C19_Witness ==
    /\ mainPc = "loop"
    /\ Len(reads) = 2
    /\ reads[1] = Read("control", << Esc >>)
    /\ reads[2] = Read("control", << "[", "A" >>)
    /\ sent = WakeCalls \o << RemoteCall("sendKey", << "KEY_HOME" >>) >>

-----------------------------------------------------------------------------
(* C20 *)

\* The records appended to the list after resolve(devices) that no record
\* appended before it equals
LateRecords ==
    { devices[i] : i \in (resolvedWith + 1)..Len(devices) }
      \ { devices[j] : j \in 1..resolvedWith }

\* The records a JSON value holds, as elements or as property values
RecordsOf(v) == { ObjectValues(v)[i] : i \in 1..Len(ObjectValues(v)) }

\* C20: a record appended to the device list after getSamsungDevices has
\* resolved is not in the mapping, not in the cache file written in this
\* run, and not in the list returned to main.
C20_LateRepliesDropped ==
    promise = "fulfilled" =>
      \A late \in LateRecords :
        /\ late \notin RecordsOf(result)
        /\ pc \in { "written", "returned" } => DeviceJson(late) \notin RecordsOf(file.value)
        /\ late \notin { returned[i] : i \in 1..Len(returned) }

C20_Witness ==
    /\ pc = "returned"
    /\ mainPc # "awaitDevices"
    /\ returned # << >>
    /\ LateRecords # { }

=============================================================================
